---- MODULE Spec2Model ----
(***************************************************************************)
(* rf-api-websocket: the WebsocketServer dispatcher (src/unnamed/part_002, *)
(* the latest revision of the module).  JSON envelopes arrive on a         *)
(* connection, onMessage validates them, looks the handler up, asks the    *)
(* optional checkACL gate and hands a WebsocketRequest to the handler,     *)
(* whose send() replies on the originating connection.                     *)
(*                                                                         *)
(* JavaScript values are strings here; a JSON object is a record over the  *)
(* keys the dispatcher reads or writes.  A property that does not exist    *)
(* holds ABSENT, a property holding the value undefined holds UNDEF.       *)
(***************************************************************************)
EXTENDS Naturals, Sequences, FiniteSets, TLC

\* ------------------------------------------------------------------ bounds
MaxMsgs == 1          \* inbound messages in one behaviour
MaxSends == 2         \* req.send() calls of the handlers in one behaviour
MaxBcasts == 1        \* broadcast() calls in one behaviour
MaxCloses == 1        \* 'close' events of one websocket while not connected
MaxSeqMsgs == 2       \* inbound messages in a behaviour of SpecSeq

Conns == {"c1", "c2"}         \* the websockets that may connect
\* the websockets of the behaviours that exercise the broadcast list
LiveConns == Conns \cup {"c3"}

\* ------------------------------------------------------------ JS values
ABSENT == "absent"            \* no such property
UNDEF == "undefined"          \* the value undefined
NULL == "null"
EmptyObj == "{}"
Circular == "<circular>"      \* a value JSON.stringify throws on

\* what `x || y` and `!x` treat as false
Falsy == {ABSENT, UNDEF, NULL, "0", ""}
\* lodash _.isNil
isNil(x) == x \in {ABSENT, UNDEF, NULL}

\* a JSON object with none of the keys the dispatcher knows
Blank(kind) ==
  [kind |-> kind, func |-> ABSENT, data |-> ABSENT, token |-> ABSENT,
   id |-> ABSENT, err |-> ABSENT, errsrc |-> ABSENT]

\* ------------------------------------------------------------- inbound
FuncVals == {ABSENT, "f", "toString"}
\* <<data, token>> of an envelope: data missing, null, empty, an object, a
\* falsy number; with and without a token
DataTokens == {<<ABSENT, "tok">>, <<NULL, ABSENT>>, <<EmptyObj, ABSENT>>,
               <<"{x:1}", "tok">>, <<"0", ABSENT>>}
\* names every plain object inherits from Object.prototype
ObjectProtoNames == {"toString", "constructor", "__proto__", "hasOwnProperty"}
\* func names used with addHandler / addPromiseHandler
RegNames == {"f"}

\* the pass-through attribute: the client numbers its requests
IdOf(n) == "i" \o ToString(n)

Envelopes(n) ==
  {[kind |-> "object", func |-> f, data |-> dt[1], token |-> dt[2],
    id |-> IdOf(n), err |-> ABSENT, errsrc |-> ABSENT] :
      f \in FuncVals, dt \in DataTokens}

\* JSON texts of the n-th message: objects, and the JSON values that are
\* no objects (null, a number/string/boolean, an array), and text that is
\* no JSON at all
Texts(n) ==
  {[wf |-> TRUE, v |-> e] : e \in Envelopes(n)}
    \cup {[wf |-> TRUE, v |-> Blank(k)] : k \in {"null", "prim", "array"}}
    \cup {[wf |-> FALSE, v |-> Blank("none")]}

\* JSON.parse: throws on text that is no JSON
JSONparseLenient(text) == [thrown |-> FALSE, v |-> text.v]
JSONparse(text) ==
  IF text.wf THEN [thrown |-> FALSE, v |-> text.v]
             ELSE [thrown |-> TRUE, v |-> Blank("none")]

\* JSON.stringify followed by the peer's parse: properties holding undefined
\* are dropped, an array keeps only its elements, a circular value throws
Defined(x) == IF x = UNDEF THEN ABSENT ELSE x
JSONstringify(obj) ==
  IF obj.data = Circular THEN [thrown |-> TRUE, v |-> obj]
  ELSE IF obj.kind = "array" THEN [thrown |-> FALSE, v |-> Blank("array")]
  ELSE [thrown |-> FALSE,
        v |-> [kind |-> obj.kind, func |-> Defined(obj.func),
               data |-> Defined(obj.data), token |-> Defined(obj.token),
               id |-> Defined(obj.id), err |-> Defined(obj.err),
               errsrc |-> Defined(obj.errsrc)]]

\* ------------------------------------------------------------- handlers
\* callbacks are "cbA" and "cbB"; promise factories are named after what
\* their promise settles to: "gpValue", "gpNull", "gpReject".
\* What gpValue resolves to and gpReject rejects with:
PromiseValue == "{foo:bar}"
PromiseReason == "x"
\* the registration calls the application makes: <<function, acl>>
CallbackRegs == {<<"cbA", EmptyObj>>, <<"cbB", "{admin}">>}
PromiseRegs == {<<"gpValue", EmptyObj>>, <<"gpNull", "{admin}">>,
                <<"gpReject", EmptyObj>>}

NoHandler ==
  [kind |-> "none", name |-> UNDEF, callback |-> UNDEF, genPromise |-> UNDEF,
   acl |-> UNDEF]
\* a member of Object.prototype found under this.handlers[func]
InheritedMember ==
  [kind |-> "inherited", name |-> UNDEF, callback |-> UNDEF,
   genPromise |-> UNDEF, acl |-> UNDEF]
CallbackHandler(name, callback, acl) ==
  [kind |-> "CallbackHandler", name |-> name, callback |-> callback,
   genPromise |-> UNDEF, acl |-> acl]
PromiseHandler(name, genPromise, acl) ==
  [kind |-> "PromiseHandler", name |-> name, callback |-> UNDEF,
   genPromise |-> genPromise, acl |-> acl]

\* the last addHandler / addPromiseHandler call made for a func name: the
\* function and the acl it passed
NoReg == [fn |-> UNDEF, acl |-> UNDEF]

\* this.handlers[func] on the plain object this.handlers = {}
Lookup(hs, func) ==
  IF func \in DOMAIN hs /\ hs[func].kind # "none" THEN hs[func]
  ELSE IF func \in ObjectProtoNames THEN InheritedMember
  ELSE NoHandler

\* --------------------------------------------------------------- gate
Reasons == {"bad token", "forbidden"}
\* attribute objects checkACL may resolve with
GuestAttrs ==
  [user |-> "guest", data |-> ABSENT, originalRequest |-> Blank("none"),
   send |-> ABSENT]
NoAttrs ==
  [user |-> ABSENT, data |-> ABSENT, originalRequest |-> Blank("none"),
   send |-> ABSENT]
UserAttrs == [NoAttrs EXCEPT !.user = "alice"]
\* attributes whose keys collide with the request object's own
ShadowAttrs ==
  [NoAttrs EXCEPT !.user = "alice", !.data = "{gate}",
                  !.originalRequest = [Blank("object") EXCEPT !.func = "other"]]
BadSendAttrs == [NoAttrs EXCEPT !.send = "1"]
AttrObjs == {UserAttrs, ShadowAttrs, BadSendAttrs}

\* ------------------------------------------------------------ messages
TypeErrorCallback == "TypeError: this.callback is not a function"
TypeErrorHandle == "TypeError: handler.handle is not a function"
TypeErrorBind == "TypeError: this.send.bind is not a function"
TypeErrorStack == "TypeError: Cannot read properties of null (reading 'stack')"
ErrNoFunc == "msg.func is null or undefined. Please specify the function to use"
ErrNoData ==
  "msg.data is null or undefined. Use empty data object if there is no data to send"
ErrNoHandler(func) == "No handler API.onWSMessage'" \o func \o "' defined!"
ErrAcl(err) == "ACL error: " \o err

\* ------------------------------------------------------ WebsocketRequest
\* a || b
Or(a, b) == IF a \in Falsy THEN b ELSE a

\* new WebsocketRequest(originalRequest, customAttributes, sendResponse);
\* ws stands for the closure response => this.sendObj(ws, response).
\* _.extend copies every key of customAttributes over the fields set before
\* it; this.send.bind throws when customAttributes put a non-function there.
WebsocketRequest(originalRequest, customAttributes, ws) ==
  LET own == [originalRequest |-> originalRequest,
              data |-> Or(originalRequest.data, EmptyObj),
              user |-> ABSENT,
              ws |-> ws]
      extended ==
        [own EXCEPT
           !.originalRequest =
              IF customAttributes.originalRequest.kind # "none"
              THEN customAttributes.originalRequest ELSE @,
           !.data = IF customAttributes.data # ABSENT
                    THEN customAttributes.data ELSE @,
           !.user = customAttributes.user]
  IN [thrown |-> customAttributes.send # ABSENT, req |-> extended]

NoReq == WebsocketRequest(Blank("none"), NoAttrs, "none").req

\* the arguments a handler passes to send(err, data, errsrc); UNDEF is an
\* argument left out, ReqData stands for req.data
ReqData == "<req.data>"
SendArgs ==
  {[err |-> NULL, data |-> ReqData, errsrc |-> UNDEF],
   [err |-> "boom", data |-> UNDEF, errsrc |-> UNDEF],
   [err |-> "", data |-> "{r:1}", errsrc |-> "auth-failed"],
   [err |-> NULL, data |-> Circular, errsrc |-> UNDEF]}

\* res.send(null, req.data)
EchoArgs == [err |-> NULL, data |-> ReqData, errsrc |-> UNDEF]

\* WebsocketRequest.send: the reply object handed to sendResponse.  The
\* template is deep-cloned, so req itself is left as it was.
send(req, args) ==
  LET data == IF args.data = ReqData THEN req.data
              ELSE IF args.data = UNDEF THEN EmptyObj ELSE args.data
      errsrc == IF args.errsrc = UNDEF THEN "application" ELSE args.errsrc
      responseObj ==
        [req.originalRequest EXCEPT
           !.token = ABSENT,
           !.data = Or(data, EmptyObj),
           !.err = Or(args.err, NULL),
           !.errsrc = IF isNil(args.err) THEN UNDEF ELSE errsrc]
  IN [req |-> req, responseObj |-> responseObj]

\* --------------------------------------------------------------- sendObj
\* One call of sendObj(ws, obj) for message m (0: a broadcast), as the wire
\* sees it; via names the caller ("error": _sendErrorMessage, "send":
\* req.send, "broadcast").  st is "sent" when the text went out, "encodefailed" when
\* JSON.stringify threw, "sendfailed" when ws.send failed on a socket that
\* is not open; both failures are caught and logged in sendObj.
sendObjAlwaysSent(ws, obj, m, via, isOpen) ==
  [m |-> m, ws |-> ws, via |-> via, obj |-> JSONstringify(obj).v, st |-> "sent"]
sendObj(ws, obj, m, via, isOpen) ==
  LET s == JSONstringify(obj)
  IN [m |-> m, ws |-> ws, via |-> via, obj |-> s.v,
      st |-> IF s.thrown THEN "encodefailed"
             ELSE IF isOpen THEN "sent" ELSE "sendfailed"]

\* _sendErrorMessage(ws, msg, err, errsrc).  The class body is strict code:
\* assigning msg.err on a primitive throws a TypeError before anything is
\* sent.  Otherwise msg is changed in place and sent.
sendErrorMessage(ws, msg, err, errsrc, m, isOpen) ==
  IF msg.kind = "prim" THEN [thrown |-> TRUE, evs |-> <<>>]
  ELSE [thrown |-> FALSE,
        evs |-> <<sendObj(ws, [msg EXCEPT !.data = ABSENT, !.err = err,
                                          !.errsrc = errsrc], m, "error", isOpen)>>]

\* -------------------------------------------------------------- handle
\* what a callback does when it is invoked: the send() calls it makes
\* before it returns (none or one; further calls come later, on the request
\* object it kept), and what it then throws: nothing (ABSENT), an Error
\* object, or the value null
Thrown == {ABSENT, "Error", NULL}
CallbackRuns ==
  {[ss |-> ss, throws |-> t] :
     ss \in {<<>>} \cup {<<a>> : a \in SendArgs}, t \in Thrown}
NoRun == [ss |-> <<>>, throws |-> ABSENT]

RECURSIVE sendAll(_, _, _, _)
sendAll(req, ss, m, isOpen) ==
  IF ss = <<>> THEN <<>>
  ELSE <<sendObj(req.ws, send(req, Head(ss)).responseObj, m, "send", isOpen)>>
         \o sendAll(send(req, Head(ss)).req, Tail(ss), m, isOpen)

NoCall == [thrown |-> FALSE, err |-> UNDEF, evs |-> <<>>, called |-> UNDEF,
           logs |-> {}, sends |-> 0, req |-> NoReq, ran |-> NoRun]

\* CallbackHandler.handle(req): the callback runs inside try/catch.  The
\* catch block logs `${err}` and `${err.stack}`: when the callback threw
\* null (or undefined) reading err.stack throws a TypeError out of the
\* catch block, before anything is logged.
CallbackHandler_handle(h, req, run, m, isOpen) ==
  [NoCall EXCEPT
     !.thrown = run.throws = NULL,
     !.err = IF run.throws = NULL THEN TypeErrorStack ELSE UNDEF,
     !.evs = sendAll(req, run.ss, m, isOpen),
     !.called = h.callback,
     !.logs = IF run.throws = "Error" THEN {"handler-exception"} ELSE {},
     !.sends = Len(run.ss),
     !.req = req,
     !.ran = run]

\* PromiseHandler.handle(req): calls this.callback, which the constructor
\* never sets (it stores genPromise), so the call throws synchronously and
\* the then/catch chain below it is never built
PromiseHandler_handle(h, req) ==
  IF h.callback = UNDEF
  THEN [NoCall EXCEPT !.thrown = TRUE, !.err = TypeErrorCallback]
  ELSE [NoCall EXCEPT !.called = h.callback, !.req = req]

\* handler.handle(new WebsocketRequest(msg, customAttributes, ...))
handle(h, msg, customAttributes, ws, run, m, isOpen) ==
  LET made == WebsocketRequest(msg, customAttributes, ws)
  IN IF made.thrown
     THEN [NoCall EXCEPT !.thrown = TRUE, !.err = TypeErrorBind]
     ELSE IF h.kind = "CallbackHandler"
     THEN CallbackHandler_handle(h, made.req, run, m, isOpen)
     ELSE IF h.kind = "PromiseHandler"
     THEN PromiseHandler_handle(h, made.req)
     ELSE [NoCall EXCEPT !.thrown = TRUE, !.err = TypeErrorHandle]

\* ---------------------------------------------------------------- state
VARIABLES
  connState,   \* each websocket: "new", "open" or "closed"
  allWS,       \* this.allWS: the connections broadcast sends to
  checkACL,    \* whether the constructor was given a checkACL gate
  handlers,    \* this.handlers: func name -> handler
  msgs,        \* the inbound messages so far, each with how far it got
  out,         \* every sendObj call so far, in order
  registered,  \* per func name, the last registration call made for it
  bcasts,      \* the broadcast() calls so far, each with what it sent
  closes       \* per websocket, the 'close' events it got while not connected

vars == <<connState, allWS, checkACL, handlers, msgs, out, registered, bcasts,
          closes>>

\* req.send() calls so far
nsends == Cardinality({i \in 1..Len(out) : out[i].via = "send"})

isOpen(ws) == connState[ws] = "open"

\* the record kept for one inbound message; msg is the envelope as parsed
NewMsg(ws, msg) ==
  [ws |-> ws, msg |-> msg, stage |-> "received", handler |-> NoHandler,
   gate |-> 0, gateTok |-> UNDEF, gateAcl |-> UNDEF, settled |-> "none",
   reason |-> UNDEF, attrs |-> NoAttrs, called |-> UNDEF, ncalls |-> 0,
   req |-> NoReq, sends |-> 0, logs |-> {}, escaped |-> FALSE,
   sent |-> <<>>, threw |-> ABSENT, reg |-> NoReg]

Init ==
  /\ connState = [c \in Conns |-> "new"]
  /\ allWS = <<>>
  /\ checkACL \in BOOLEAN
  /\ handlers = [n \in RegNames |-> NoHandler]
  /\ msgs = <<>>
  /\ out = <<>>
  /\ registered = [n \in RegNames |-> NoReg]
  /\ bcasts = <<>>
  /\ closes = [c \in Conns |-> 0]

\* ---------------------------------------------------- connection registry
\* onConnection(ws)
onConnection(ws) ==
  /\ connState[ws] = "new"
  /\ connState' = [connState EXCEPT ![ws] = "open"]
  /\ allWS' = Append(allWS, ws)
  /\ UNCHANGED <<checkACL, handlers, msgs, out, registered, bcasts, closes>>

\* allWS.indexOf(ws) / splice(idx, 1)
indexOf(seq, x) ==
  IF \E i \in 1..Len(seq) : seq[i] = x
  THEN CHOOSE i \in 1..Len(seq) : seq[i] = x /\ \A j \in 1..(i - 1) : seq[j] # x
  ELSE 0
splice1(seq, idx) ==
  [i \in 1..(Len(seq) - 1) |-> IF i < idx THEN seq[i] ELSE seq[i + 1]]
\* (splice(-1, 1), which an unchecked index gives, removes the last element)
removeWSUnchecked(list, ws) ==
  IF indexOf(list, ws) > 0 THEN splice1(list, indexOf(list, ws))
  ELSE IF list = <<>> THEN list ELSE SubSeq(list, 1, Len(list) - 1)
removeWS(list, ws) ==
  IF indexOf(list, ws) > 0 THEN splice1(list, indexOf(list, ws)) ELSE list

\* the 'close' event of a connected websocket: onClose(ws)
onClose(ws) ==
  /\ connState[ws] \in {"open", "errored"}
  /\ connState' = [connState EXCEPT ![ws] = "closed"]
  /\ allWS' = removeWS(allWS, ws)
  /\ UNCHANGED <<checkACL, handlers, msgs, out, registered, bcasts, closes>>

\* ------------------------------------------------------------ registration
\* this.handlers[funcName] = handler
setHandlerIfAbsent(hs, funcName, handler) ==
  IF hs[funcName].kind = "none" THEN [hs EXCEPT ![funcName] = handler] ELSE hs
setHandler(hs, funcName, handler) == [hs EXCEPT ![funcName] = handler]

\* the registration call as the application made it
Registration(fn, acl) == [fn |-> fn, acl |-> acl]

addHandler(funcName, callback, acl) ==
  /\ handlers' = setHandler(handlers, funcName,
                            CallbackHandler(funcName, callback, acl))
  /\ registered' = [registered EXCEPT
                      ![funcName] = Registration(callback, acl)]
  /\ UNCHANGED <<connState, allWS, checkACL, msgs, out, bcasts, closes>>

addPromiseHandler(funcName, genPromise, acl) ==
  /\ handlers' = setHandler(handlers, funcName,
                            PromiseHandler(funcName, genPromise, acl))
  /\ registered' = [registered EXCEPT
                      ![funcName] = Registration(genPromise, acl)]
  /\ UNCHANGED <<connState, allWS, checkACL, msgs, out, bcasts, closes>>

\* ---------------------------------------------------------------- onMessage
\* the validity checks of onMessage: !msg.func, _.isNil(msg.data)
funcMissingNever(msg) == FALSE
funcMissing(msg) == msg.func \in Falsy
dataMissingUndefinedOnly(msg) == msg.data \in {ABSENT, UNDEF}
dataMissing(msg) == isNil(msg.data)

\* the arguments of this.checkACL(token, handler.acl)
gateArgsNoAcl(msg, handler) == [token |-> Defined(msg.token), acl |-> UNDEF]
gateArgs(msg, handler) == [token |-> Defined(msg.token), acl |-> handler.acl]

\* the message left onMessage (or the then-callback) by an exception
Threw(rec) == [rec |-> [rec EXCEPT !.stage = "threw", !.escaped = TRUE], evs |-> <<>>]

\* the record of a message after handler.handle(...) returned normally
Handled(rec, handler, attrs, h) ==
  [rec EXCEPT !.stage = "handled", !.handler = handler, !.attrs = attrs,
              !.called = h.called,
              !.ncalls = IF h.called = UNDEF THEN 0 ELSE 1,
              !.req = h.req,
              !.sends = h.sends,
              !.logs = @ \cup h.logs,
              !.sent = h.ran.ss,
              !.threw = h.ran.throws]

\* onMessage(ws, data, flags) for the m-th message: what becomes of the
\* message and the sendObj calls made before onMessage returns
received(ws, text, m, run) ==
  LET parsed == JSONparse(text)
      msg == parsed.v
      rec == NewMsg(ws, msg)
      func == msg.func
      \* from the lookup on, with the registration the lookup saw
      looked == [rec EXCEPT
                   !.reg = IF func \in DOMAIN registered THEN registered[func]
                           ELSE NoReg]
      handler == Lookup(handlers, func)
  IN IF parsed.thrown
     THEN [rec |-> [rec EXCEPT !.stage = "dropped", !.logs = {"parse"}],
           evs |-> <<>>]
     ELSE IF msg.kind = "null"          \* msg.func on null throws
     THEN Threw(rec)
     ELSE IF funcMissing(msg)
     THEN LET e == sendErrorMessage(ws, msg, ErrNoFunc, "msgformat", m, isOpen(ws))
          IN IF e.thrown THEN Threw(rec)
             ELSE [rec |-> [rec EXCEPT !.stage = "msgformat", !.logs = {"nofunc"}],
                   evs |-> e.evs]
     ELSE IF dataMissing(msg)
     THEN LET e == sendErrorMessage(ws, msg, ErrNoData, "msgformat", m, isOpen(ws))
          IN IF e.thrown THEN Threw(rec)
             ELSE [rec |-> [rec EXCEPT !.stage = "msgformat", !.logs = {"nodata"}],
                   evs |-> e.evs]
     ELSE IF handler.kind = "none"
     THEN [rec |-> [looked EXCEPT !.stage = "no-such-handler",
                                 !.logs = {"nohandler"}],
           evs |-> sendErrorMessage(ws, Blank("object"), ErrNoHandler(func),
                                    "no-such-handler", m, isOpen(ws)).evs]
     ELSE IF checkACL
     THEN [rec |-> [looked EXCEPT !.stage = "gate", !.handler = handler,
                               !.gate = @ + 1,
                               !.gateTok = gateArgs(msg, handler).token,
                               !.gateAcl = gateArgs(msg, handler).acl],
           evs |-> <<>>]
     ELSE LET h == handle(handler, msg, NoAttrs, ws, run, m, isOpen(ws))
          IN IF h.thrown
             THEN [rec |-> [Handled(looked, handler, NoAttrs, h) EXCEPT
                              !.stage = "threw", !.escaped = TRUE],
                   evs |-> h.evs]
             ELSE [rec |-> Handled(looked, handler, NoAttrs, h), evs |-> h.evs]

\* whether onMessage runs a callback for this text before it returns
runsCallback(text) ==
  /\ text.wf /\ ~funcMissing(text.v) /\ ~dataMissing(text.v)
  /\ Lookup(handlers, text.v.func).kind = "CallbackHandler"
  /\ ~checkACL

\* a 'message' event on an open websocket
onMessage(ws, text) ==
  /\ isOpen(ws)
  /\ \E run \in (IF runsCallback(text) THEN CallbackRuns ELSE {NoRun}) :
       /\ nsends + Len(run.ss) <= MaxSends
       /\ LET r == received(ws, text, Len(msgs) + 1, run)
          IN /\ msgs' = Append(msgs, r.rec)
             /\ out' = out \o r.evs
  /\ UNCHANGED <<connState, allWS, checkACL, handlers, registered, bcasts, closes>>

\* ------------------------------------------------------------------- gate
\* checkACL(token, acl) resolved with customAttributes: the then-callback.
\* Whatever it throws lands in the catch-callback of the same chain.
resolvedLateLookup(m, customAttributes, run) ==
  LET rec == [msgs[m] EXCEPT !.settled = "resolved", !.attrs = customAttributes]
      late == Lookup(handlers, rec.msg.func)
      h == handle(late, rec.msg, customAttributes, rec.ws, run, m,
                  isOpen(rec.ws))
  IN IF h.thrown
     THEN [rec |-> [Handled(rec, late, customAttributes, h) EXCEPT
                      !.stage = "acl"],
           evs |-> h.evs \o sendErrorMessage(rec.ws, rec.msg, ErrAcl(h.err),
                                             "acl", m, isOpen(rec.ws)).evs]
     ELSE [rec |-> Handled(rec, late, customAttributes, h), evs |-> h.evs]
resolved(m, customAttributes, run) ==
  LET rec == [msgs[m] EXCEPT !.settled = "resolved", !.attrs = customAttributes]
      h == handle(rec.handler, rec.msg, customAttributes, rec.ws, run, m,
                  isOpen(rec.ws))
  IN IF h.thrown
     THEN [rec |-> [Handled(rec, rec.handler, customAttributes, h) EXCEPT
                      !.stage = "acl"],
           evs |-> h.evs \o sendErrorMessage(rec.ws, rec.msg, ErrAcl(h.err),
                                             "acl", m, isOpen(rec.ws)).evs]
     ELSE [rec |-> Handled(rec, rec.handler, customAttributes, h), evs |-> h.evs]

gateResolves(m, customAttributes) ==
  /\ m \in 1..Len(msgs)
  /\ msgs[m].stage = "gate"
  /\ \E run \in (IF msgs[m].handler.kind = "CallbackHandler"
                    /\ customAttributes.send = ABSENT
                 THEN CallbackRuns ELSE {NoRun}) :
       /\ nsends + Len(run.ss) <= MaxSends
       /\ LET r == resolved(m, customAttributes, run)
          IN /\ msgs' = [msgs EXCEPT ![m] = r.rec]
             /\ out' = out \o r.evs
  /\ UNCHANGED <<connState, allWS, checkACL, handlers, registered, bcasts, closes>>

\* checkACL(token, acl) rejected with err: the catch-callback
rejectedSwapped(m, err) ==
  LET rec == msgs[m]
  IN [rec |-> [rec EXCEPT !.settled = "rejected", !.reason = err, !.stage = "acl"],
      evs |-> sendErrorMessage(rec.ws, rec.msg, "acl", ErrAcl(err), m,
                               isOpen(rec.ws)).evs]
rejectedElsewhere(m, err) ==
  LET rec == msgs[m]
      other == CHOOSE c \in Conns : c # rec.ws
  IN [rec |-> [rec EXCEPT !.settled = "rejected", !.reason = err, !.stage = "acl"],
      evs |-> sendErrorMessage(other, rec.msg, ErrAcl(err), "acl", m,
                               isOpen(other)).evs]
rejected(m, err) ==
  LET rec == msgs[m]
  IN [rec |-> [rec EXCEPT !.settled = "rejected", !.reason = err, !.stage = "acl"],
      evs |-> sendErrorMessage(rec.ws, rec.msg, ErrAcl(err), "acl", m,
                               isOpen(rec.ws)).evs]

gateRejectsAndForgets(m, err) ==
  /\ m \in 1..Len(msgs)
  /\ msgs[m].stage = "gate"
  /\ LET r == rejected(m, err)
     IN /\ msgs' = [msgs EXCEPT ![m] = r.rec]
        /\ out' = out \o r.evs
  /\ handlers' = [n \in DOMAIN handlers |-> NoHandler]
  /\ UNCHANGED <<connState, allWS, checkACL, registered, bcasts, closes>>
gateRejects(m, err) ==
  /\ m \in 1..Len(msgs)
  /\ msgs[m].stage = "gate"
  /\ LET r == rejected(m, err)
     IN /\ msgs' = [msgs EXCEPT ![m] = r.rec]
        /\ out' = out \o r.evs
  /\ UNCHANGED <<connState, allWS, checkACL, handlers, registered, bcasts, closes>>

\* ------------------------------------------------------------- later sends
\* a callback that kept its request object calls req.send after it returned
laterSend(m, args) ==
  /\ m \in 1..Len(msgs)
  /\ msgs[m].called # UNDEF
  /\ nsends < MaxSends
  /\ LET req == msgs[m].req
         s == send(req, args)
     IN /\ out' = Append(out, sendObj(req.ws, s.responseObj, m, "send",
                                       isOpen(req.ws)))
        /\ msgs' = [msgs EXCEPT ![m].req = s.req, ![m].sends = @ + 1,
                                ![m].sent = Append(@, args)]
  /\ UNCHANGED <<connState, allWS, checkACL, handlers, registered, bcasts, closes>>

\* ---------------------------------------------------------------- broadcast
\* the objects the application broadcasts: {a:1}, and an envelope that
\* carries func, err and errsrc of its own
BcastObjs ==
  {[Blank("object") EXCEPT !.data = "{a:1}"],
   [Blank("object") EXCEPT !.func = "news", !.data = EmptyObj, !.err = "late",
                           !.errsrc = "feed"]}

\* for (let ws of this.allWS) this.sendObj(ws, obj): sendObj catches and
\* logs a failed send, so the loop goes on to the next websocket
broadcastAborting(list, obj) ==
  LET evs == [i \in 1..Len(list) |->
                sendObj(list[i], obj, 0, "broadcast", isOpen(list[i]))]
      failed == {i \in 1..Len(list) : evs[i].st # "sent"}
  IN IF failed = {} THEN evs
     ELSE SubSeq(evs, 1, CHOOSE i \in failed : \A j \in failed : i <= j)
broadcastAsReply(list, obj) ==
  [i \in 1..Len(list) |->
     sendObj(list[i], send([NoReq EXCEPT !.originalRequest = obj],
                           [err |-> NULL, data |-> obj.data,
                            errsrc |-> UNDEF]).responseObj,
             0, "broadcast", isOpen(list[i]))]
broadcastEach(list, obj) ==
  [i \in 1..Len(list) |->
     sendObj(list[i], obj, 0, "broadcast", isOpen(list[i]))]

\* broadcast(obj)
broadcast(obj) ==
  /\ Len(bcasts) < MaxBcasts
  /\ LET evs == broadcastEach(allWS, obj)
     IN /\ out' = out \o evs
        /\ bcasts' = Append(bcasts,
             [obj |-> obj, live |-> allWS,
              closed |-> {ws \in DOMAIN connState : connState[ws] = "closed"},
              open |-> {ws \in DOMAIN connState : isOpen(ws)},
              evs |-> evs, pos |-> Len(allWS) + 1, done |-> TRUE])
  /\ UNCHANGED <<connState, allWS, checkACL, handlers, msgs, registered, closes>>

\* The same loop, one turn at a time.  for...of walks this.allWS itself with
\* an index: each turn compares the index with the length the array has
\* then, sends to the element the index holds then, and moves on.  c is the
\* record of the broadcast call, pos its index (from 1).
iterNext(c) ==
  IF c.pos <= Len(allWS)
  THEN [c EXCEPT
          !.evs = Append(@, sendObj(allWS[c.pos], c.obj, 0, "broadcast",
                                    isOpen(allWS[c.pos]))),
          !.pos = @ + 1]
  ELSE [c EXCEPT !.done = TRUE]

Iterating == {b \in 1..Len(bcasts) : ~bcasts[b].done}

\* broadcast(obj) up to the return of its first send (or to its end, when
\* there is nobody to send to)
broadcastBegin(obj) ==
  /\ Len(bcasts) < MaxBcasts
  /\ Iterating = {}
  /\ LET c == iterNext([obj |-> obj, live |-> allWS,
                        closed |-> {ws \in DOMAIN connState :
                                      connState[ws] = "closed"},
                        open |-> {ws \in DOMAIN connState : isOpen(ws)},
                        evs |-> <<>>, pos |-> 1, done |-> FALSE])
     IN /\ bcasts' = Append(bcasts, c)
        /\ out' = out \o c.evs
  /\ UNCHANGED <<connState, allWS, checkACL, handlers, msgs, registered, closes>>

\* the next turn of the loop, after whatever the last send set off
broadcastNext(b) ==
  /\ b \in Iterating
  /\ LET c == iterNext(bcasts[b])
     IN /\ bcasts' = [bcasts EXCEPT ![b] = c]
        /\ out' = out \o SubSeq(c.evs, Len(bcasts[b].evs) + 1, Len(c.evs))
  /\ UNCHANGED <<connState, allWS, checkACL, handlers, msgs, registered, closes>>

\* the 'error' event of an open websocket: the listener only logs.  The
\* socket is no longer open, and stays in allWS until its 'close' event.
onError(ws) ==
  /\ connState[ws] = "open"
  /\ connState' = [connState EXCEPT ![ws] = "errored"]
  /\ UNCHANGED <<allWS, checkACL, handlers, msgs, out, registered, bcasts, closes>>

\* onClose(ws) for a websocket that is not connected: one that already got
\* its 'close' event, or one that was never added to allWS
onCloseAgain(ws) ==
  /\ connState[ws] \in {"new", "closed"}
  /\ closes[ws] < MaxCloses
  /\ closes' = [closes EXCEPT ![ws] = @ + 1]
  /\ allWS' = removeWS(allWS, ws)
  /\ UNCHANGED <<connState, checkACL, handlers, msgs, out, registered, bcasts>>

\* ------------------------------------------------------------ specification
Next ==
  \/ \E ws \in Conns : onConnection(ws)
  \/ \E ws \in Conns : onClose(ws)
  \/ \E n \in RegNames, r \in CallbackRegs : addHandler(n, r[1], r[2])
  \/ \E n \in RegNames, r \in PromiseRegs : addPromiseHandler(n, r[1], r[2])
  \/ \E ws \in Conns : \E text \in Texts(Len(msgs) + 1) :
       Len(msgs) < MaxMsgs /\ onMessage(ws, text)
  \/ \E m \in 1..MaxMsgs, a \in AttrObjs : gateResolves(m, a)
  \/ \E m \in 1..MaxMsgs, r \in Reasons : gateRejects(m, r)
  \/ \E m \in 1..MaxMsgs, args \in SendArgs : laterSend(m, args)

Spec == Init /\ [][Next]_vars

\* Two messages in a row, on the same or on different websockets, between
\* registrations: the envelope is always valid and names the registered
\* func; a callback returns without sending, echoes req.data, or throws an
\* Error.
SeqTexts(n) ==
  {[wf |-> TRUE,
    v |-> [kind |-> "object", func |-> "f", data |-> "{x:1}", token |-> "tok",
           id |-> IdOf(n), err |-> ABSENT, errsrc |-> ABSENT]]}
SeqRuns ==
  {NoRun, [ss |-> <<EchoArgs>>, throws |-> ABSENT],
   [ss |-> <<>>, throws |-> "Error"]}
\* what the callback did for message m, as a run
RunOf(rec) == [ss |-> rec.sent, throws |-> rec.threw]

NextSeq ==
  \/ \E ws \in Conns : onConnection(ws)
  \/ \E n \in RegNames, r \in CallbackRegs : addHandler(n, r[1], r[2])
  \/ \E n \in RegNames, r \in PromiseRegs : addPromiseHandler(n, r[1], r[2])
  \/ \E ws \in Conns : \E text \in SeqTexts(Len(msgs) + 1) :
       /\ Len(msgs) < MaxSeqMsgs
       /\ onMessage(ws, text)
       /\ RunOf(msgs'[Len(msgs')]) \in SeqRuns
  \/ \E m \in 1..MaxSeqMsgs :
       gateResolves(m, UserAttrs) /\ RunOf(msgs'[m]) \in SeqRuns
  \/ \E m \in 1..MaxSeqMsgs : gateRejects(m, "forbidden")

SpecSeq == Init /\ [][NextSeq]_vars

\* the connection registry and broadcast, on three websockets and with no
\* inbound messages
InitLive ==
  /\ connState = [c \in LiveConns |-> "new"]
  /\ allWS = <<>>
  /\ checkACL = FALSE
  /\ handlers = [n \in RegNames |-> NoHandler]
  /\ msgs = <<>>
  /\ out = <<>>
  /\ registered = [n \in RegNames |-> NoReg]
  /\ bcasts = <<>>
  /\ closes = [c \in LiveConns |-> 0]

NextLive ==
  \/ \E ws \in LiveConns : onConnection(ws)
  \/ \E ws \in LiveConns : onClose(ws)
  \/ \E ws \in LiveConns : onError(ws)
  \/ \E ws \in LiveConns : onCloseAgain(ws)
  \/ \E obj \in BcastObjs : broadcast(obj)

SpecLive == InitLive /\ [][NextLive]_vars

\* every kind of event around one message: connect, error and close events,
\* registration of a callback and of a promise handler, an inbound text (a
\* valid envelope, one without func and data, or no JSON at all), the gate
\* settling, one later send and a broadcast
AllTexts(n) ==
  SeqTexts(n)
    \cup {[wf |-> TRUE, v |-> [Blank("object") EXCEPT !.id = IdOf(n)]],
          [wf |-> FALSE, v |-> Blank("none")]}

NextAll ==
  \/ \E ws \in Conns : onConnection(ws)
  \/ \E ws \in Conns : onClose(ws)
  \/ \E ws \in Conns : onError(ws)
  \/ \E ws \in Conns : onCloseAgain(ws)
  \/ \E n \in RegNames : addHandler(n, "cbB", "{admin}")
  \/ \E n \in RegNames : addPromiseHandler(n, "gpValue", EmptyObj)
  \/ \E ws \in Conns : \E text \in AllTexts(Len(msgs) + 1) :
       /\ Len(msgs) < MaxMsgs
       /\ onMessage(ws, text)
       /\ RunOf(msgs'[Len(msgs')]) \in SeqRuns
  \/ \E m \in 1..MaxMsgs :
       gateResolves(m, UserAttrs) /\ RunOf(msgs'[m]) \in SeqRuns
  \/ \E m \in 1..MaxMsgs : gateRejects(m, "forbidden")
  \/ \E m \in 1..Len(msgs) : msgs[m].sends = 0 /\ laterSend(m, EchoArgs)
  \/ \E obj \in BcastObjs : broadcast(obj)

SpecAll == Init /\ [][NextAll]_vars

\* a broadcast whose sends set off 'connection' and 'close' events before
\* they return: the events fall between the turns of the loop
NextIter ==
  \/ \E ws \in LiveConns : onConnection(ws)
  \/ \E ws \in LiveConns : onClose(ws)
  \/ \E obj \in BcastObjs : broadcastBegin(obj)
  \/ \E b \in 1..MaxBcasts : broadcastNext(b)

SpecIter == InitLive /\ [][NextIter]_vars

\* ================================================================ claims
\* the sendObj calls made for message m, in order
RepliesOf(m) == SelectSeq(out, LAMBDA e : e.m = m)
Msgs == 1..Len(msgs)
\* a handler was registered under the func of m when onMessage looked it up
Registered(m) == msgs[m].handler.kind \in {"CallbackHandler", "PromiseHandler"}
\* m decoded to an envelope with a func and with data
ValidEnvelope(m) ==
  /\ msgs[m].msg.kind = "object"
  /\ msgs[m].msg.func \notin Falsy
  /\ ~isNil(msgs[m].msg.data)

C2_AclReplyErrIsReason ==
  \A m \in Msgs :
    msgs[m].settled = "rejected" =>
      /\ Len(RepliesOf(m)) = 1
      /\ RepliesOf(m)[1].ws = msgs[m].ws
      /\ RepliesOf(m)[1].obj.errsrc = "acl"
      /\ RepliesOf(m)[1].obj.err = msgs[m].reason
      /\ msgs[m].called = UNDEF

\* C2 amended: a gate rejection with reason r gives exactly one reply, on the
\* originating connection, with errsrc "acl" and err the text "ACL error: "
\* followed by r, and the callback is not invoked.
C2_AclReplyErrIsPrefixedReason ==
  \A m \in Msgs :
    msgs[m].settled = "rejected" =>
      /\ Len(RepliesOf(m)) = 1
      /\ RepliesOf(m)[1].ws = msgs[m].ws
      /\ RepliesOf(m)[1].obj.errsrc = "acl"
      /\ RepliesOf(m)[1].obj.err = "ACL error: " \o msgs[m].reason
      /\ msgs[m].called = UNDEF

C2_Witness ==
  \E m \in Msgs : msgs[m].settled = "rejected" /\ Len(RepliesOf(m)) = 1

\* C3: every message that decodes and has no func gets a reply with errsrc
\* "msgformat" on its connection, and neither the gate nor a handler runs.
C3_NoFuncRepliesMsgformat ==
  \A m \in Msgs :
    (msgs[m].msg.kind # "none" /\ msgs[m].msg.func = ABSENT) =>
      /\ \E i \in 1..Len(RepliesOf(m)) :
           /\ RepliesOf(m)[i].ws = msgs[m].ws
           /\ RepliesOf(m)[i].obj.errsrc = "msgformat"
      /\ msgs[m].gate = 0
      /\ msgs[m].called = UNDEF

\* C4: an envelope with a func whose data is absent or null gets a reply with
\* errsrc "msgformat" and no handler runs; with data the empty object the
\* envelope passes validation and reaches handler lookup.
C4_NoDataRepliesMsgformat ==
  \A m \in Msgs :
    (msgs[m].msg.kind = "object" /\ msgs[m].msg.func \notin Falsy) =>
      /\ isNil(msgs[m].msg.data) =>
           /\ msgs[m].stage = "msgformat"
           /\ \E i \in 1..Len(RepliesOf(m)) :
                /\ RepliesOf(m)[i].ws = msgs[m].ws
                /\ RepliesOf(m)[i].obj.errsrc = "msgformat"
           /\ msgs[m].called = UNDEF
      /\ msgs[m].msg.data = EmptyObj =>
           /\ msgs[m].stage # "msgformat"
           /\ \A i \in 1..Len(RepliesOf(m)) :
                RepliesOf(m)[i].obj.errsrc # "msgformat"
           /\ \/ msgs[m].stage = "no-such-handler"
              \/ msgs[m].handler.kind # "none"

C4_Witness ==
  \E m \in Msgs :
    /\ msgs[m].msg.func = "f"
    /\ msgs[m].msg.data = NULL
    /\ Len(RepliesOf(m)) = 1
    /\ RepliesOf(m)[1].obj.errsrc = "msgformat"

\* the other half of C4's case: an envelope with data {} that went on to a
\* handler
C4_EmptyDataHandled ==
  \E m \in Msgs :
    msgs[m].msg.data = EmptyObj /\ msgs[m].called # UNDEF


\* C5: a valid envelope naming a func under which no handler was registered
\* gets exactly one reply, with errsrc "no-such-handler" and an err text that
\* names the func; neither the gate nor a handler runs.
C5_UnregisteredFuncRepliesNoSuchHandler ==
  \A m \in Msgs :
    (ValidEnvelope(m) /\ ~Registered(m)) =>
      /\ Len(RepliesOf(m)) = 1
      /\ RepliesOf(m)[1].obj.errsrc = "no-such-handler"
      /\ RepliesOf(m)[1].obj.err = ErrNoHandler(msgs[m].msg.func)
      /\ msgs[m].gate = 0
      /\ msgs[m].called = UNDEF

\* C6: no reply to an inbound message carries a token field.
C6_NoTokenInReplies ==
  \A i \in 1..Len(out) : out[i].m > 0 => out[i].obj.token = ABSENT

\* C7: every reply to an inbound envelope carries the envelope's pass-through
\* attribute and its func, with their original values.
C7_RepliesEchoPassThrough ==
  \A i \in 1..Len(out) :
    (out[i].m > 0 /\ out[i].st # "encodefailed") =>
      /\ out[i].obj.id = msgs[out[i].m].msg.id
      /\ out[i].obj.func = msgs[out[i].m].msg.func

\* C8: a callback that called send n times for a request has produced exactly
\* n replies, each on the originating connection and each with the request's
\* func and pass-through attribute; with n = 0 there is no reply.
C8_OneReplyPerSend ==
  \A m \in Msgs :
    msgs[m].called # UNDEF =>
      /\ Len(RepliesOf(m)) = msgs[m].sends
      /\ \A i \in 1..Len(RepliesOf(m)) :
           /\ RepliesOf(m)[i].via = "send"
           /\ RepliesOf(m)[i].ws = msgs[m].ws
           /\ RepliesOf(m)[i].st # "encodefailed" =>
                /\ RepliesOf(m)[i].obj.func = msgs[m].msg.func
                /\ RepliesOf(m)[i].obj.id = msgs[m].msg.id

\* the message went past authorization: the gate resolved, or there is none
Authorized(m) ==
  /\ Registered(m)
  /\ IF checkACL THEN msgs[m].settled = "resolved" ELSE msgs[m].stage # "received"

\* C9: an authorized message for a promise handler whose promise resolves to
\* a non-null value v gets exactly one reply, with data = v, err = null and no
\* errsrc.
C9_ResolvedValueIsTheReply ==
  \A m \in Msgs :
    (Authorized(m) /\ msgs[m].handler.genPromise = "gpValue") =>
      /\ Len(RepliesOf(m)) = 1
      /\ RepliesOf(m)[1].obj.data = PromiseValue
      /\ RepliesOf(m)[1].obj.err = NULL
      /\ RepliesOf(m)[1].obj.errsrc = ABSENT

\* C10: an authorized message for a promise handler whose promise rejects with
\* x gets exactly one reply, with err = x and errsrc "application", and the
\* rejection is logged.
C10_RejectionIsTheReply ==
  \A m \in Msgs :
    (Authorized(m) /\ msgs[m].handler.genPromise = "gpReject") =>
      /\ Len(RepliesOf(m)) = 1
      /\ RepliesOf(m)[1].obj.err = PromiseReason
      /\ RepliesOf(m)[1].obj.errsrc = "application"
      /\ "handler-rejected" \in msgs[m].logs

\* C11: an authorized message for a promise handler whose promise resolves
\* to null produces no reply of any kind on any connection.
C11_NullResolveNoReply ==
  \A m \in Msgs :
    (Authorized(m) /\ msgs[m].handler.genPromise = "gpNull") =>
      RepliesOf(m) = <<>>

\* C12: when a callback handler throws, the exception is logged, the only
\* replies for the message are the ones the callback sent itself, and the
\* exception does not leave onMessage.
C12_CallbackExceptionCaught ==
  \A m \in Msgs :
    (msgs[m].handler.kind = "CallbackHandler" /\ msgs[m].threw # ABSENT) =>
      /\ "handler-exception" \in msgs[m].logs
      /\ Len(RepliesOf(m)) = msgs[m].sends
      /\ \A i \in 1..Len(RepliesOf(m)) : RepliesOf(m)[i].via = "send"
      /\ ~msgs[m].escaped

\* C13: a message whose handler lookup comes after a func name was
\* registered again is dispatched to the last registration only: the handler
\* found holds the function and the acl of the last addHandler or
\* addPromiseHandler call, the gate is asked with that acl, and no other
\* callback is invoked for the message.
C13_LastRegistrationWins ==
  \A m \in Msgs :
    /\ msgs[m].reg = NoReg =>
         /\ msgs[m].stage = "no-such-handler"
         /\ msgs[m].called = UNDEF
    /\ msgs[m].reg # NoReg =>
         /\ Registered(m)
         /\ msgs[m].handler.kind = "CallbackHandler" =>
              msgs[m].handler.callback = msgs[m].reg.fn
         /\ msgs[m].handler.kind = "PromiseHandler" =>
              msgs[m].handler.genPromise = msgs[m].reg.fn
         /\ msgs[m].handler.acl = msgs[m].reg.acl
         /\ msgs[m].called \in {UNDEF, msgs[m].reg.fn}
         /\ msgs[m].gate > 0 => msgs[m].gateAcl = msgs[m].reg.acl

\* two messages for the same func, the first run by one callback and the
\* second, after the func was registered again, by the other
C13_Witness ==
  /\ Len(msgs) = 2
  /\ checkACL
  /\ msgs[1].msg.func = msgs[2].msg.func
  /\ msgs[1].called = "cbA" /\ msgs[1].gateAcl = EmptyObj
  /\ msgs[2].called = "cbB" /\ msgs[2].gateAcl = "{admin}"

\* the websockets in a list, and the sendObj calls of a broadcast to one
InList(list) == {list[i] : i \in 1..Len(list)}
SendsTo(c, ws) == {i \in 1..Len(c.evs) : c.evs[i].ws = ws}
Bcasts == 1..Len(bcasts)

\* C14: broadcast(obj) makes exactly one send to each websocket that is in
\* the live set when it is called, each send carries obj as it was given,
\* every websocket open at the call gets it, and no websocket that closed
\* before the call is sent anything.
C14_BroadcastToEachLive ==
  \A b \in Bcasts :
    LET c == bcasts[b]
    IN /\ Len(c.evs) = Len(c.live)
       /\ \A ws \in InList(c.live) : Cardinality(SendsTo(c, ws)) = 1
       /\ \A i \in 1..Len(c.evs) :
            /\ c.evs[i].obj = c.obj
            /\ c.evs[i].via = "broadcast"
            /\ c.evs[i].ws \in InList(c.live)
            /\ c.evs[i].ws \notin c.closed
       /\ \A ws \in c.open :
            \E i \in SendsTo(c, ws) : c.evs[i].st = "sent"

\* a broadcast of the envelope with func, err and errsrc of its own, made
\* with two websockets connected and one closed
C14_Witness ==
  \E b \in Bcasts :
    /\ bcasts[b].obj.func = "news"
    /\ Len(bcasts[b].evs) = 2
    /\ bcasts[b].closed # {}
    /\ \A i \in 1..2 : bcasts[b].evs[i].st = "sent"

\* C15: a websocket that got its close event is not in the live set and no
\* broadcast made after it targets the websocket; a close event for a
\* websocket that is not connected (closed before, or never added) leaves
\* the live set as it was.
C15_CloseRemovesOnce ==
  /\ [](\A ws \in DOMAIN connState :
          connState[ws] = "closed" => ws \notin InList(allWS))
  /\ [](\A b \in Bcasts : \A ws \in bcasts[b].closed :
          SendsTo(bcasts[b], ws) = {})
  /\ [][\A ws \in DOMAIN connState :
          closes'[ws] > closes[ws] => allWS' = allWS]_vars

\* a websocket closed and got a second close event while another stayed
\* connected, and a broadcast after that reached the other one
C15_Witness ==
  \E ws \in DOMAIN connState :
    /\ connState[ws] = "closed"
    /\ closes[ws] = 1
    /\ allWS # <<>>
    /\ \E b \in Bcasts :
         ws \in bcasts[b].closed /\ bcasts[b].evs # <<>>

\* C16: when the send to one websocket fails during a broadcast, sendObj
\* catches it and the loop goes on: every websocket of the live set is still
\* sent to, and every open one gets the object.
C16_BroadcastSurvivesFailure ==
  \A b \in Bcasts :
    LET c == bcasts[b]
    IN (\E i \in 1..Len(c.evs) : c.evs[i].st = "sendfailed") =>
         /\ Len(c.evs) = Len(c.live)
         /\ \A ws \in c.open :
              \E i \in SendsTo(c, ws) :
                c.evs[i].st = "sent" /\ c.evs[i].obj = c.obj

\* a broadcast whose first send failed and whose later sends went out
C16_Witness ==
  \E b \in Bcasts :
    /\ Len(bcasts[b].evs) = 3
    /\ bcasts[b].evs[1].st = "sendfailed"
    /\ bcasts[b].evs[2].st = "sent"
    /\ bcasts[b].evs[3].st = "sent"

\* the callback run for m was (req, res) => res.send(null, req.data)
Echo(m) ==
  /\ msgs[m].handler.kind = "CallbackHandler"
  /\ msgs[m].called # UNDEF
  /\ msgs[m].sent = <<EchoArgs>>
  /\ msgs[m].threw = ABSENT

\* C17: an authorized envelope {func, data: d} with d not null, handled by
\* the echo callback, gets exactly one reply, and the reply carries the
\* envelope's func, data = d and err = null; the callback saw req.data = d.
C17_EchoRoundTrip ==
  \A m \in Msgs :
    (ValidEnvelope(m) /\ Authorized(m) /\ Echo(m)) =>
      /\ msgs[m].req.data = msgs[m].msg.data
      /\ Len(RepliesOf(m)) = 1
      /\ RepliesOf(m)[1].obj.func = msgs[m].msg.func
      /\ RepliesOf(m)[1].obj.data = msgs[m].msg.data
      /\ RepliesOf(m)[1].obj.err = NULL

\* C18: a message that is no well-formed JSON is logged and dropped: it
\* never has a reply, a gate call or a handler call, and the step that
\* receives it changes neither the registry nor the live set nor what was
\* sent.
C18_MalformedDropped ==
  /\ [](\A m \in Msgs :
          msgs[m].msg.kind = "none" =>
            /\ msgs[m].stage = "dropped"
            /\ "parse" \in msgs[m].logs
            /\ RepliesOf(m) = <<>>
            /\ msgs[m].gate = 0
            /\ msgs[m].called = UNDEF)
  /\ [][(Len(msgs') > Len(msgs) /\ msgs'[Len(msgs')].msg.kind = "none") =>
          /\ out' = out
          /\ handlers' = handlers
          /\ allWS' = allWS]_vars

\* malformed text arrived on a connected websocket while a handler was
\* registered
C18_Witness ==
  \E m \in Msgs :
    /\ msgs[m].stage = "dropped"
    /\ handlers["f"].kind # "none"
    /\ allWS # <<>>

\* C19: no inbound message makes an exception leave onMessage.
C19_NoFaultEscapes ==
  \A m \in Msgs : ~msgs[m].escaped

\* the arguments of the k-th send() call the handler made for the message
\* an outbound event belongs to
SendIndex(i) ==
  Cardinality({j \in 1..i : out[j].m = out[i].m /\ out[j].via = "send"})
ArgsOf(i) == msgs[out[i].m].sent[SendIndex(i)]

\* C20: every error reply carries err and errsrc: the dispatcher's own have
\* errsrc msgformat, no-such-handler or acl, and an error a handler sends
\* without a category has errsrc "application" and the handler's err.
C20_ErrorRepliesCarryErrAndErrsrc ==
  \A i \in 1..Len(out) :
    (out[i].m > 0 /\ out[i].st # "encodefailed") =>
      /\ out[i].via = "error" =>
           /\ out[i].obj.err \notin {ABSENT, NULL}
           /\ out[i].obj.errsrc \in {"msgformat", "no-such-handler", "acl"}
      /\ (out[i].via = "send" /\ ~isNil(ArgsOf(i).err)
             /\ ArgsOf(i).err \notin Falsy /\ ArgsOf(i).errsrc = UNDEF) =>
           /\ out[i].obj.err = ArgsOf(i).err
           /\ out[i].obj.errsrc = "application"

\* C21: every reply made for an inbound message, by the handler's send or by
\* the dispatcher as an error, goes to the websocket the message arrived on.
C21_RepliesOnOriginatingConnection ==
  \A i \in 1..Len(out) :
    out[i].m > 0 => out[i].ws = msgs[out[i].m].ws

\* two messages from different websockets were both waiting for the gate;
\* the second was answered first, one by its handler and one by an acl error
C21_Witness ==
  /\ Len(msgs) = 2
  /\ msgs[1].ws # msgs[2].ws
  /\ Len(out) = 2
  /\ out[1].m = 2 /\ out[2].m = 1
  /\ {out[1].via, out[2].via} = {"send", "error"}

\* C22: without a gate, a valid envelope for a registered handler goes to
\* handler.handle with no authorization step, and the request object the
\* callback gets holds the envelope, its data and nothing of a caller.
C22_NoGateNoAttributes ==
  \A m \in Msgs :
    (~checkACL /\ ValidEnvelope(m) /\ Registered(m)) =>
      /\ msgs[m].gate = 0
      /\ msgs[m].settled = "none"
      /\ msgs[m].stage \in {"handled", "threw"}
      /\ msgs[m].attrs.user = ABSENT
      /\ msgs[m].handler.kind = "CallbackHandler" =>
           /\ msgs[m].called = msgs[m].handler.callback
           /\ msgs[m].ncalls = 1
           /\ msgs[m].req.user = ABSENT
           /\ msgs[m].req.originalRequest = msgs[m].msg
           /\ msgs[m].req.data = Or(msgs[m].msg.data, EmptyObj)
           /\ msgs[m].req.ws = msgs[m].ws

\* a callback ran for an envelope with a token on a server without a gate
C22_Witness ==
  \E m \in Msgs :
    /\ ~checkACL
    /\ msgs[m].called = "cbB"
    /\ msgs[m].handler.acl = "{admin}"
    /\ msgs[m].msg.token = "tok"
    /\ msgs[m].sends = 1

\* C23: a websocket that had a transport error event is no longer in the
\* live set, and a broadcast made after the error does not send to it.
C23_ErrorRemovesFromLiveSet ==
  /\ \A ws \in DOMAIN connState :
       connState[ws] = "errored" => ws \notin InList(allWS)
  /\ \A b \in Bcasts : \A ws \in InList(bcasts[b].live) :
       ws \in bcasts[b].open \cup bcasts[b].closed

\* C24: when websockets close or connect while a broadcast is in its loop,
\* every websocket that was in the live set at the call and is still open
\* has been sent the object exactly once when the loop ends, and nobody is
\* sent it twice.
C24_BroadcastSnapshot ==
  \A b \in Bcasts :
    LET c == bcasts[b]
    IN /\ \A ws \in DOMAIN connState : Cardinality(SendsTo(c, ws)) <= 1
       /\ c.done =>
            \A ws \in InList(c.live) :
              isOpen(ws) => Cardinality(SendsTo(c, ws)) = 1

\* C25: with a gate, the handler of a message is looked up when the message
\* arrives, before any later message is read, and that handler is the one
\* invoked whenever the gate resolves; nothing orders the gate calls of two
\* messages, so the later message may be handled and answered first.
C25_LookupAtArrival ==
  \A m \in Msgs :
    /\ msgs[m].stage # "received"
    /\ msgs[m].gate > 0 =>
         /\ msgs[m].handler.acl = msgs[m].reg.acl
         /\ msgs[m].reg.fn \in {msgs[m].handler.callback,
                                 msgs[m].handler.genPromise}
         /\ msgs[m].called # UNDEF =>
              /\ msgs[m].settled = "resolved"
              /\ msgs[m].called = msgs[m].reg.fn

\* two messages on one websocket: the second was handled and answered while
\* the first still waited for the gate, and the first was answered after it
C25_Witness ==
  /\ Len(msgs) = 2
  /\ msgs[1].ws = msgs[2].ws
  /\ msgs[1].called # UNDEF /\ msgs[2].called # UNDEF
  /\ Len(out) = 2
  /\ out[1].m = 2 /\ out[1].via = "send"
  /\ out[2].m = 1 /\ out[2].via = "send"

C27_FuncFailureWins ==
  \A m \in Msgs :
    (msgs[m].msg.kind = "object" /\ msgs[m].msg.func = ABSENT
       /\ msgs[m].msg.data = ABSENT) =>
      /\ Len(RepliesOf(m)) = 1
      /\ RepliesOf(m)[1].obj.err = ErrNoFunc
      /\ RepliesOf(m)[1].obj.errsrc = "msgformat"
      /\ msgs[m].logs = {"nofunc"}

C27_Witness ==
  \E m \in Msgs :
    /\ msgs[m].msg.kind = "object"
    /\ msgs[m].msg.func = ABSENT /\ msgs[m].msg.data = ABSENT
    /\ Len(RepliesOf(m)) = 1
    /\ RepliesOf(m)[1].st = "sent"

\* the websockets that connected and have not had their close event
Connected == {ws \in DOMAIN connState : connState[ws] \in {"open", "errored"}}

\* C28: the live set holds exactly the websockets that connected and have
\* not closed, each once, and a step that changes it is a connect or a close
\* event: it changes no message, reply, broadcast or registration.
C28_LiveSetIsConnected ==
  /\ [](InList(allWS) = Connected /\ Len(allWS) = Cardinality(Connected))
  /\ [][allWS' # allWS =>
          /\ \E ws \in DOMAIN connState :
               /\ connState'[ws] # connState[ws]
               /\ connState'[ws] \in {"open", "closed"}
               /\ \A other \in DOMAIN connState \ {ws} :
                    connState'[other] = connState[other]
          /\ msgs' = msgs /\ out' = out /\ bcasts' = bcasts
          /\ handlers' = handlers]_vars

\* after a message with a reply, a broadcast and a close, with a repeated
\* close event, one websocket is left in the live set
C28_Witness ==
  /\ Len(allWS) = 1
  /\ \E ws \in DOMAIN connState : connState[ws] = "closed" /\ closes[ws] = 1
  /\ Len(bcasts) = 1
  /\ \E m \in Msgs : msgs[m].sends = 1

\* C29: a step that changes a binding of the registry is a registration: it
\* changes no message, reply, broadcast or connection, and the binding it
\* leaves is the one the registration call asked for.
C29_RegistryChangesByRegistrationOnly ==
  /\ [](\A n \in DOMAIN handlers :
          /\ handlers[n].acl = registered[n].acl
          /\ registered[n].fn \in {handlers[n].callback,
                                    handlers[n].genPromise})
  /\ [][handlers' # handlers =>
          /\ registered' # registered
          /\ msgs' = msgs /\ out' = out /\ bcasts' = bcasts
          /\ allWS' = allWS /\ connState' = connState
          /\ closes' = closes]_vars

\* the handler registered before a rejected message, a broadcast and a
\* close is still bound
C29_Witness ==
  /\ handlers["f"].callback = "cbB"
  /\ \E m \in Msgs : msgs[m].stage = "acl" /\ msgs[m].handler.callback = "cbB"
  /\ Len(bcasts) = 1
  /\ \E ws \in DOMAIN connState : connState[ws] = "closed"

\* the terminal dispatch outcomes message m has reached
Outcomes(m) ==
  {src \in {"msgformat", "no-such-handler", "acl"} :
     \E i \in 1..Len(RepliesOf(m)) :
       RepliesOf(m)[i].via = "error" /\ RepliesOf(m)[i].obj.errsrc = src}
    \cup (IF msgs[m].called # UNDEF THEN {"invoked"} ELSE {})

\* C30: a message that decoded to an envelope has no outcome while its gate
\* call is pending and exactly one once the gate has settled or was never
\* asked: a msgformat, no-such-handler or acl reply, or the invocation of
\* the handler's callback.
C30_ExactlyOneOutcome ==
  \A m \in Msgs :
    msgs[m].msg.kind = "object" =>
      IF msgs[m].stage = "gate" THEN Outcomes(m) = {}
      ELSE Cardinality(Outcomes(m)) = 1

\* C31: a reply with errsrc "acl" is sent for a message only when the gate
\* rejected that message; a message whose gate call resolved never gets one.
C31_AclReplyOnlyOnRejection ==
  \A i \in 1..Len(out) :
    (out[i].m > 0 /\ out[i].via = "error" /\ out[i].obj.errsrc = "acl") =>
      msgs[out[i].m].settled = "rejected"

\* C32: when the gate of a message resolves and a callback is invoked, the
\* callback and the access rule the gate was asked about are those of the
\* one registration the lookup found, also when the func was registered
\* again while the message waited.
C32_CallbackAndRuleFromOneRegistration ==
  \A m \in Msgs :
    (msgs[m].settled = "resolved" /\ msgs[m].called # UNDEF) =>
      /\ msgs[m].called = msgs[m].reg.fn
      /\ msgs[m].gateAcl = msgs[m].reg.acl
      /\ <<msgs[m].called, msgs[m].gateAcl>> \in CallbackRegs

\* a message waited for the gate under (cbA, {}); the func was registered
\* again as (cbB, {admin}); then the gate resolved and cbA was invoked
C32_Witness ==
  \E m \in Msgs :
    /\ msgs[m].settled = "resolved"
    /\ msgs[m].called = "cbA"
    /\ msgs[m].gateAcl = EmptyObj
    /\ registered[msgs[m].msg.func] = Registration("cbB", "{admin}")

\* C33: in every reply made by WebsocketRequest.send the errsrc field is
\* present exactly when err is not null.
C33_ErrsrcIffErr ==
  \A i \in 1..Len(out) :
    out[i].via = "send" =>
      (out[i].obj.errsrc \notin {ABSENT, UNDEF} <=> out[i].obj.err # NULL)

\* C34: whatever attribute object the gate resolves with, the callback is
\* invoked with the request the envelope alone would give (its data, the
\* envelope as reply template, the originating websocket as reply path),
\* and every reply it sends carries the envelope's func and pass-through
\* attributes to the originating websocket.
C34_AttributesLeaveRequestAlone ==
  \A m \in Msgs :
    (msgs[m].settled = "resolved" /\ msgs[m].handler.kind = "CallbackHandler") =>
      /\ msgs[m].called = msgs[m].handler.callback
      /\ [msgs[m].req EXCEPT !.user = ABSENT]
           = WebsocketRequest(msgs[m].msg, NoAttrs, msgs[m].ws).req
      /\ \A i \in 1..Len(RepliesOf(m)) :
           RepliesOf(m)[i].via = "send" =>
             /\ RepliesOf(m)[i].ws = msgs[m].ws
             /\ RepliesOf(m)[i].obj.func = msgs[m].msg.func
             /\ RepliesOf(m)[i].obj.id = msgs[m].msg.id

====
